---- MODULE Spec2Model ----
\* A model of sync_radar_data_globus.py: the Synchronizer class and the
\* __main__ block that runs it.  One "run" is one invocation of the script.
\* Text that the program only passes along (paths, names, patterns) is a TLA+
\* string; text that the program inspects (the token file, the formatted
\* month, endpoint fields searched with "in") is a sequence of pieces.
EXTENDS Integers, Sequences, FiniteSets, TLC

\* ---------------------------------------------------------------------------
\* Bounds of the model
\* ---------------------------------------------------------------------------
MaxRuns == 3
MaxFiles == 5
MaxEndpoints == 2
MaxYear == 2018
MaxMonthArg == 13

\* ---------------------------------------------------------------------------
\* Python values
\* ---------------------------------------------------------------------------
\* None and "a value": an optional value is a sequence of length 0 or 1, so
\* that the empty string (a value) and None stay distinct.
None == << >>
Some(v) == << v >>
IsNone(o) == o = << >>
Val(o) == o[1]

\* str(n) for n >= 0
Digit(d) == CASE d = 0 -> "0" [] d = 1 -> "1" [] d = 2 -> "2" [] d = 3 -> "3"
              [] d = 4 -> "4" [] d = 5 -> "5" [] d = 6 -> "6" [] d = 7 -> "7"
              [] d = 8 -> "8" [] d = 9 -> "9"

RECURSIVE Digits(_)
Digits(n) == IF n < 10 THEN << Digit(n) >> ELSE Digits(n \div 10) \o << Digit(n % 10) >>

\* "{:d}".format(n) in the place of "{:02d}".format(n): no padding
Format02d_no_padding(n) == IF n < 0 THEN << "-" >> \o Digits(0 - n) ELSE Digits(n)

\* "{:02d}".format(n): sign, then the digits, zero-padded to a total width of 2
Format02d(n) ==
    LET body == IF n < 0 THEN << "-" >> \o Digits(0 - n) ELSE Digits(n)
    IN  IF Len(body) < 2 THEN << "0" >> \o body ELSE body

DigitVal(c) == CASE c = "0" -> 0 [] c = "1" -> 1 [] c = "2" -> 2 [] c = "3" -> 3
                 [] c = "4" -> 4 [] c = "5" -> 5 [] c = "6" -> 6 [] c = "7" -> 7
                 [] c = "8" -> 8 [] c = "9" -> 9

RECURSIVE NatOf(_)
NatOf(cs) == IF Len(cs) = 0 THEN 0
             ELSE 10 * NatOf(SubSeq(cs, 1, Len(cs) - 1)) + DigitVal(cs[Len(cs)])

\* int(s) for a string of an optional sign and digits
IntOf(cs) == IF cs[1] = "-" THEN 0 - NatOf(Tail(cs)) ELSE NatOf(cs)

\* the pieces of a text joined into one string
RECURSIVE Join(_)
Join(cs) == IF Len(cs) = 0 THEN "" ELSE cs[1] \o Join(Tail(cs))

\* Python's "needle in text" on texts given as sequences of pieces
Contains(needle, text) ==
    \E i \in 1..(Len(text) - Len(needle) + 1) :
        SubSeq(text, i, i + Len(needle) - 1) = needle

\* file.readline(): the text up to and including the first newline
RECURSIVE ReadLine(_)
ReadLine(content) ==
    IF Len(content) = 0 THEN << >>
    ELSE IF content[1] = "\n" THEN << "\n" >>
    ELSE << content[1] >> \o ReadLine(Tail(content))

\* all sequences over S of length at most n
SeqsUpTo(S, n) == UNION { [1..k -> S] : k \in 0..n }

\* ---------------------------------------------------------------------------
\* Program constants
\* ---------------------------------------------------------------------------
PERSONAL_UUID == ""
possible_data_types == { "raw", "dat", "fit", "map", "grid", "summary" }
MaintainerAddress == << "kevin.krieger@usask.ca" >>
OfficialMarker == << "Official" >>
SecondsPerFile == 30
PollingInterval == 30

\* the exceptions a call of the transfer service can raise
RemoteErrors == { "GlobusAPIError", "GlobusConnectionError",
                  "GlobusTimeoutError", "NetworkError" }

\* ---------------------------------------------------------------------------
\* Inputs
\* ---------------------------------------------------------------------------
Years == 2016..MaxYear
MonthArgs == (0 - 1)..MaxMonthArg
DataTypeArgs == possible_data_types \cup { "rawacf" }
Patterns == { "*", "20070101*sas" }

\* what datetime.now() can give
AllDates == [ year : Years, month : 1..12 ]
\* what the command line can give
AllRequests == [ sync_year : { 2007 } \cup Years, sync_month : MonthArgs, sync_pattern : Patterns,
                 data_type : DataTypeArgs, sync_local_dir : { "/data" } ]

\* the dates and requests of the runs of the script in Spec
RunDates == { [ year |-> 2017, month |-> 6 ] }
RunRequests == [ sync_year : { 2007, 2018 }, sync_month : { 1, 13 },
                 sync_pattern : { "20070101*sas" }, data_type : { "raw", "summary" },
                 sync_local_dir : { "/data" } ]

\* secrets are opaque one-line strings
RefreshTokens == { << "A" >>, << "B", "A" >> }
AccessTokens == { "at1" }
ClientSecrets == { "cs1" }
\* what the token file can hold before the first run: nothing (no file), a
\* secret, a secret followed by a newline, or an empty file
InitialFiles == { None, Some(<< "A" >>), Some(<< "A", "\n" >>), Some(<< >>) }

Contacts == { << "kevin.krieger@usask.ca" >>, << "admin", "kevin.krieger@usask.ca" >>,
              << "someone@example.org" >> }
Descriptions == { << "Official", "SuperDARN", "mirror" >>, << "SuperDARN", "mirror" >>,
                  << "Unofficial", "mirror" >> }
Endpoints == [ id : { "ep1", "ep2" }, contact_email : Contacts, description : Descriptions ]
AllSearchResults == SeqsUpTo(Endpoints, MaxEndpoints)
Mirror(i) == [ id |-> i, contact_email |-> << "kevin.krieger@usask.ca" >>,
               description |-> << "Official", "SuperDARN", "mirror" >> ]
Partial(i) == [ id |-> i, contact_email |-> << "kevin.krieger@usask.ca" >>,
                description |-> << "SuperDARN", "mirror" >> ]
RunSearchResults == { << >>, << Partial("ep1") >>, << Partial("ep1"), Mirror("ep2") >> }

FileNames == { "f1.rawacf.bz2", "f2.rawacf.bz2" }
Listings == SeqsUpTo(FileNames, MaxFiles)

\* ---------------------------------------------------------------------------
\* State
\* ---------------------------------------------------------------------------
VARIABLES
    transfer_rt_file,    \* content of TRANSFER_RT_FILENAME: None when there is no file
    runs,                \* number of runs of the script started so far
    saved_rt,            \* history: the secret the last successful login wrote
    login_run,           \* history: the run that wrote it (0: none)
    peer,                \* another invocation of the script running at the same time
    pc,                  \* position of the current run
    outcome,             \* how the current run ended
    message,             \* what it printed last
    calls,               \* remote calls of the current run, in order
    cur_year, cur_month,
    arg_month,           \* history: the -m argument as parsed, before formatting
    CLIENT_SECRET, TRANSFER_RT,
    sync_year, sync_month, sync_pattern, data_type, sync_local_dir,
    strategies,          \* authorizer methods get_transfer_client invoked in this run
    authorizer,
    prompts,             \* times the operator was asked for a login code in this run
    token_response,
    write_failed,        \* history: writing the token file failed in this run
    search_result,       \* history: what endpoint_search returned
    mirror_uuid,
    listing_path, listing_pattern,
    files_to_sync, task_max_duration_s,
    transfer_data,
    job_status,          \* the remote job of this run
    waited,              \* time task_wait has waited so far
    completed            \* what task_wait returned

envVars == << transfer_rt_file, runs, saved_rt, login_run, peer >>
ctlVars == << pc, outcome, message, calls >>
reqVars == << cur_year, cur_month, arg_month, sync_year, sync_month, sync_pattern, data_type,
              sync_local_dir >>
credVars == << CLIENT_SECRET, TRANSFER_RT >>
authVars == << strategies, authorizer, prompts, token_response, write_failed >>
resVars == << search_result, mirror_uuid >>
syncVars == << listing_path, listing_pattern, files_to_sync, task_max_duration_s,
               transfer_data, job_status, waited, completed >>
vars == << envVars, ctlVars, reqVars, credVars, authVars, resVars, syncVars >>

\* no other invocation is running
NoPeer == [ pc |-> "off", launch_file |-> None, TRANSFER_RT |-> None,
            strategy |-> "none", refresh_token |-> None, secret |-> None ]

\* the state of an object on which __init__ has not yet called get_transfer_client
FreshAuth ==
    /\ strategies = << >>
    /\ authorizer = None
    /\ prompts = 0
    /\ token_response = None
    /\ write_failed = FALSE
FreshRes ==
    /\ search_result = None
    /\ mirror_uuid = None
FreshSync ==
    /\ listing_path = None
    /\ listing_pattern = None
    /\ files_to_sync = None
    /\ task_max_duration_s = None
    /\ transfer_data = None
    /\ job_status = "none"
    /\ waited = 0
    /\ completed = None
FreshCtl(p) ==
    /\ pc = p
    /\ outcome = "none"
    /\ message = "none"
    /\ calls = << >>
NoRequest ==
    /\ cur_year = 0
    /\ cur_month = 0
    /\ arg_month = 0
    /\ sync_year = 0
    /\ sync_month = << >>
    /\ sync_pattern = ""
    /\ data_type = ""
    /\ sync_local_dir = ""

\* a new process and a new Synchronizer object: nothing is carried over
ResetObject ==
    /\ strategies' = << >>
    /\ authorizer' = None
    /\ prompts' = 0
    /\ token_response' = None
    /\ write_failed' = FALSE
    /\ search_result' = None
    /\ mirror_uuid' = None
    /\ listing_path' = None
    /\ listing_pattern' = None
    /\ files_to_sync' = None
    /\ task_max_duration_s' = None
    /\ transfer_data' = None
    /\ job_status' = "none"
    /\ waited' = 0
    /\ completed' = None

\* Synchronizer.__init__, lines 102-129: the date and the parsed arguments
SetRequest(d, r) ==
    /\ cur_year' = d.year
    /\ cur_month' = d.month
    /\ arg_month' = r.sync_month
    /\ sync_year' = r.sync_year
    /\ sync_month' = Format02d(r.sync_month)
    /\ sync_pattern' = r.sync_pattern
    /\ data_type' = r.data_type
    /\ sync_local_dir' = r.sync_local_dir

\* ways a run ends
Finish(o, m) ==
    /\ pc' = "done"
    /\ outcome' = o
    /\ message' = m

\* ---------------------------------------------------------------------------
\* __main__ and Synchronizer.__init__ up to sanity_check
\* ---------------------------------------------------------------------------
isfile(f) == ~ IsNone(f)

\* __main__ never looking for the token file
MainTransferRt_no_file(f) == None

\* the transfer_rt argument __main__ passes to Synchronizer
MainTransferRt(f) == IF isfile(f) THEN Some(ReadLine(Val(f))) ELSE None

Main(dates, requests) ==
    /\ pc \in { "idle", "done" }
    /\ runs < MaxRuns
    /\ runs' = runs + 1
    /\ TRANSFER_RT' = MainTransferRt(transfer_rt_file)
    /\ CLIENT_SECRET' = None
    /\ \E d \in dates, r \in requests : SetRequest(d, r)
    /\ pc' = "sanity_check"
    /\ outcome' = "none"
    /\ message' = "none"
    /\ calls' = << >>
    /\ ResetObject
    /\ UNCHANGED << transfer_rt_file, saved_rt, login_run, peer >>

\* ---------------------------------------------------------------------------
\* sanity_check
\* ---------------------------------------------------------------------------
FutureMonthMsg == "Year and month is in the future. Exiting"
FutureYearMsg == "Sync year is in the future. Exiting"
InvalidMonthMsg == "Sync month invalid. Exiting"
DataTypeMsg == "Data type can only be one of. Exiting"

\* sanity_check comparing the month of the current year with 12, not with
\* the current month
sanity_check_no_future_month(cy, cm, y, m, dt) ==
    IF y = cy /\ IntOf(m) > 12 THEN FutureMonthMsg
    ELSE IF y > cy THEN FutureYearMsg
    ELSE IF IntOf(m) < 1 \/ IntOf(m) > 12 THEN InvalidMonthMsg
    ELSE IF dt \notin possible_data_types THEN DataTypeMsg
    ELSE "ok"

\* sanity_check taking the current month itself for a future month
sanity_check_current_month(cy, cm, y, m, dt) ==
    IF y = cy /\ IntOf(m) >= cm THEN FutureMonthMsg
    ELSE IF y > cy THEN FutureYearMsg
    ELSE IF IntOf(m) < 1 \/ IntOf(m) > 12 THEN InvalidMonthMsg
    ELSE IF dt \notin possible_data_types THEN DataTypeMsg
    ELSE "ok"

\* sanity_check testing the data type before the dates
sanity_check_type_first(cy, cm, y, m, dt) ==
    IF dt \notin possible_data_types THEN DataTypeMsg
    ELSE IF y = cy /\ IntOf(m) > cm THEN FutureMonthMsg
    ELSE IF y > cy THEN FutureYearMsg
    ELSE IF IntOf(m) < 1 \/ IntOf(m) > 12 THEN InvalidMonthMsg
    ELSE "ok"

\* sanity_check without the lower limit of the month
sanity_check_no_lower_limit(cy, cm, y, m, dt) ==
    IF y = cy /\ IntOf(m) > cm THEN FutureMonthMsg
    ELSE IF y > cy THEN FutureYearMsg
    ELSE IF IntOf(m) > 12 THEN InvalidMonthMsg
    ELSE IF dt \notin possible_data_types THEN DataTypeMsg
    ELSE "ok"

\* the message sanity_check exits with, or "ok"
sanity_check(cy, cm, y, m, dt) ==
    IF y = cy /\ IntOf(m) > cm THEN FutureMonthMsg
    ELSE IF y > cy THEN FutureYearMsg
    ELSE IF IntOf(m) < 1 \/ IntOf(m) > 12 THEN InvalidMonthMsg
    ELSE IF dt \notin possible_data_types THEN DataTypeMsg
    ELSE "ok"

\* sys.exit with a message that only prints it and returns
Exit_print(m) ==
    /\ pc' = "get_transfer_client"
    /\ message' = m
    /\ UNCHANGED outcome

\* sys.exit(m): the process ends here with the message m
Exit(m) == Finish("Aborted", m)

SanityCheck ==
    /\ pc = "sanity_check"
    /\ LET res == sanity_check(cur_year, cur_month, sync_year, sync_month, data_type)
       IN  IF res = "ok"
           THEN /\ pc' = "get_transfer_client"
                /\ UNCHANGED << outcome, message >>
           ELSE Exit(res)
    /\ UNCHANGED << envVars, calls, reqVars, credVars, authVars, resVars, syncVars >>

\* ---------------------------------------------------------------------------
\* get_transfer_client and the three authorizer methods
\* ---------------------------------------------------------------------------
\* an exception nothing catches: the interpreter prints a traceback and exits
Crash(m) == Finish("Crashed", m)

\* get_transfer_client testing the client secret before the refresh token
get_transfer_client_secret_first(rt, cs) ==
    IF ~ IsNone(cs) THEN "get_client_secret_authorizer"
    ELSE IF ~ IsNone(rt) THEN "get_refresh_token_authorizer"
    ELSE "get_auth_with_login"

\* the authorizer method get_transfer_client calls
get_transfer_client(rt, cs) ==
    IF ~ IsNone(rt) THEN "get_refresh_token_authorizer"
    ELSE IF ~ IsNone(cs) THEN "get_client_secret_authorizer"
    ELSE "get_auth_with_login"

GetTransferClient ==
    /\ pc = "get_transfer_client"
    /\ LET method == get_transfer_client(TRANSFER_RT, CLIENT_SECRET)
       IN  /\ pc' = method
           /\ strategies' = Append(strategies, method)
    /\ UNCHANGED << envVars, outcome, message, calls, reqVars, credVars, authorizer,
                    prompts, token_response, write_failed, resVars, syncVars >>

\* builds the authorizer locally; the secret is first used by the next call
GetRefreshTokenAuthorizer ==
    /\ pc = "get_refresh_token_authorizer"
    /\ authorizer' = Some([ kind |-> "RefreshTokenAuthorizer",
                            secret |-> Join(Val(TRANSFER_RT)) ])
    /\ pc' = "get_superdarn_mirror_uuid"
    /\ UNCHANGED << envVars, outcome, message, calls, reqVars, credVars, strategies,
                    prompts, token_response, write_failed, resVars, syncVars >>

GetClientSecretAuthorizer ==
    /\ pc = "get_client_secret_authorizer"
    /\ calls' = Append(calls, "oauth2_client_credentials_tokens")
    /\ \/ \E at \in AccessTokens :
            /\ authorizer' = Some([ kind |-> "AccessTokenAuthorizer", secret |-> at ])
            /\ pc' = "get_superdarn_mirror_uuid"
            /\ UNCHANGED << outcome, message >>
       \/ \E e \in RemoteErrors :
            /\ Crash(e)
            /\ UNCHANGED authorizer
    /\ UNCHANGED << envVars, reqVars, credVars, strategies, prompts, token_response,
                    write_failed, resVars, syncVars >>

\* get_auth_with_login, lines 253-263: print the URL and block on the operator
LoginPrompt ==
    /\ pc = "get_auth_with_login"
    /\ prompts' = prompts + 1
    /\ pc' = "exchange_code"
    /\ UNCHANGED << envVars, outcome, message, calls, reqVars, credVars, strategies,
                    authorizer, token_response, write_failed, resVars, syncVars >>

\* get_auth_with_login, lines 264-267
ExchangeCode ==
    /\ pc = "exchange_code"
    /\ calls' = Append(calls, "oauth2_exchange_code_for_tokens")
    /\ \/ \E at \in AccessTokens, rt \in RefreshTokens :
            /\ token_response' = Some([ access_token |-> at, refresh_token |-> rt ])
            /\ pc' = "write_transfer_rt_file"
            /\ UNCHANGED << outcome, message >>
       \/ \E e \in RemoteErrors :
            /\ Crash(e)
            /\ UNCHANGED token_response
    /\ UNCHANGED << envVars, reqVars, credVars, strategies, authorizer, prompts,
                    write_failed, resVars, syncVars >>

\* WriteFile opening the file for appending
WriteFile_append(secret) ==
    IF isfile(transfer_rt_file) THEN Some(Val(transfer_rt_file) \o secret) ELSE Some(secret)

\* WriteFile ending the line it writes
WriteFile_newline(secret) == Some(secret \o << "\n" >>)

\* what open(name, 'w') followed by write(secret) leaves in the file
WriteFile(secret) == Some(secret)

\* get_auth_with_login, lines 271-279
WriteTransferRtFile ==
    /\ pc = "write_transfer_rt_file"
    /\ \/ /\ transfer_rt_file' = WriteFile(Val(token_response).refresh_token)
          /\ saved_rt' = Some(Val(token_response).refresh_token)
          /\ login_run' = runs
          /\ authorizer' = Some([ kind |-> "AccessTokenAuthorizer",
                                  secret |-> Val(token_response).access_token ])
          /\ pc' = "get_superdarn_mirror_uuid"
          /\ UNCHANGED << outcome, message, write_failed >>
       \/ \* open() or write() raises IOError, which nothing catches.  When
          \* open() fails the file is as before; when write() fails open()
          \* has already truncated it
          /\ transfer_rt_file' \in { transfer_rt_file, Some(<< >>) }
          /\ write_failed' = TRUE
          /\ Crash("IOError")
          /\ UNCHANGED authorizer
          /\ UNCHANGED << saved_rt, login_run >>
    /\ UNCHANGED << runs, peer, calls, reqVars, credVars, strategies, prompts,
                    token_response, resVars, syncVars >>

\* ---------------------------------------------------------------------------
\* get_superdarn_mirror_uuid
\* ---------------------------------------------------------------------------
\* IsMirror accepting a match of either field
IsMirror_either(ep) ==
    \/ Contains(MaintainerAddress, ep.contact_email)
    \/ Contains(OfficialMarker, ep.description)

\* the test of line 217
IsMirror(ep) ==
    /\ Contains(MaintainerAddress, ep.contact_email)
    /\ Contains(OfficialMarker, ep.description)

\* the loop of lines 216-218: the id it returns, None when it falls through
RECURSIVE get_superdarn_mirror_uuid(_)
get_superdarn_mirror_uuid(eps) ==
    IF Len(eps) = 0 THEN None
    ELSE IF IsMirror(eps[1]) THEN Some(eps[1].id)
    ELSE get_superdarn_mirror_uuid(Tail(eps))

EndpointNotFoundMsg == "No endpoint found for SuperDARN mirror. Exiting"

GetSuperdarnMirrorUuid(results) ==
    /\ pc = "get_superdarn_mirror_uuid"
    /\ calls' = Append(calls, "endpoint_search")
    /\ \/ \E eps \in results :
            /\ search_result' = Some(eps)
            /\ LET found == get_superdarn_mirror_uuid(eps)
               IN  IF IsNone(found)
                   THEN /\ Finish("Aborted", EndpointNotFoundMsg)
                        /\ UNCHANGED mirror_uuid
                   ELSE /\ mirror_uuid' = found
                        /\ pc' = "synchronize"
                        /\ UNCHANGED << outcome, message >>
       \/ \E e \in RemoteErrors :
            /\ Crash(e)
            /\ UNCHANGED resVars
    /\ UNCHANGED << envVars, reqVars, credVars, authVars, syncVars >>

\* ---------------------------------------------------------------------------
\* synchronize
\* ---------------------------------------------------------------------------
\* the characters of a data type, for the "in" tests of lines 165-175
TypeChars(dt) ==
    CASE dt = "raw" -> << "r", "a", "w" >>
      [] dt = "dat" -> << "d", "a", "t" >>
      [] dt = "fit" -> << "f", "i", "t" >>
      [] dt = "map" -> << "m", "a", "p" >>
      [] dt = "grid" -> << "g", "r", "i", "d" >>
      [] dt = "summary" -> << "s", "u", "m", "m", "a", "r", "y" >>
      [] dt = "rawacf" -> << "r", "a", "w", "a", "c", "f" >>

\* lines 160-162
ListingPath(dt, y, m) ==
    "~/chroot/sddata/" \o dt \o "/" \o Join(Digits(y)) \o "/" \o Join(m) \o "/"

\* ListingPattern with the dat and fit suffixes exchanged
ListingPattern_suffixes_exchanged(dt, p) ==
    IF Contains(TypeChars("raw"), TypeChars(dt)) THEN "name:~*" \o p \o "*rawacf.bz2"
    ELSE IF Contains(TypeChars("dat"), TypeChars(dt)) THEN "name:~*" \o p \o "*fitacf.gz"
    ELSE IF Contains(TypeChars("fit"), TypeChars(dt)) THEN "name:~*" \o p \o "*dat.bz2"
    ELSE IF Contains(TypeChars("map"), TypeChars(dt)) THEN "name:~*" \o p \o "*map"
    ELSE IF Contains(TypeChars("grid"), TypeChars(dt)) THEN "name:~*" \o p \o "*grid"
    ELSE "name:~*" \o p \o "*"

\* lines 164-178
ListingPattern(dt, p) ==
    IF Contains(TypeChars("raw"), TypeChars(dt)) THEN "name:~*" \o p \o "*rawacf.bz2"
    ELSE IF Contains(TypeChars("dat"), TypeChars(dt)) THEN "name:~*" \o p \o "*dat.bz2"
    ELSE IF Contains(TypeChars("fit"), TypeChars(dt)) THEN "name:~*" \o p \o "*fitacf.gz"
    ELSE IF Contains(TypeChars("map"), TypeChars(dt)) THEN "name:~*" \o p \o "*map"
    ELSE IF Contains(TypeChars("grid"), TypeChars(dt)) THEN "name:~*" \o p \o "*grid"
    ELSE "name:~*" \o p \o "*"

\* TaskMaxDuration allowing one file more than listed
TaskMaxDuration_one_more(files) == (Len(files) + 1) * SecondsPerFile

\* line 186
TaskMaxDuration(files) == Len(files) * SecondsPerFile

\* Handled without the last except clause
Handled_no_network_error == { "GlobusAPIError", "GlobusConnectionError",
                              "GlobusTimeoutError" }

\* the exceptions the try block of synchronize has an except clause for
Handled == { "GlobusAPIError", "GlobusConnectionError", "GlobusTimeoutError",
             "NetworkError" }

\* Raise with a handler that starts synchronize over
Raise_retry(e) ==
    /\ pc' = "synchronize"
    /\ UNCHANGED << outcome, message >>

\* an exception raised inside the try block of synchronize: the handler prints
\* a message and synchronize returns; without a handler the run crashes
Raise(e) == IF e \in Handled THEN Finish("Failed", e) ELSE Crash(e)

\* lines 157-188: build path and pattern, list, compute the soft timeout
ListFiles ==
    /\ pc = "synchronize"
    /\ listing_path' = Some(ListingPath(data_type, sync_year, sync_month))
    /\ listing_pattern' = Some(ListingPattern(data_type, sync_pattern))
    /\ calls' = Append(calls, "operation_ls")
    /\ \/ \E files \in Listings :
            /\ files_to_sync' = Some(files)
            /\ task_max_duration_s' = Some(TaskMaxDuration(files))
            /\ pc' = "sync_files_from_list"
            /\ UNCHANGED << outcome, message >>
       \/ \E e \in RemoteErrors :
            /\ Raise(e)
            /\ UNCHANGED << files_to_sync, task_max_duration_s >>
    /\ UNCHANGED << envVars, reqVars, credVars, authVars, resVars, transfer_data,
                    job_status, waited, completed >>

\* lines 313-315
SourceDirPrefix(dt, y, m) ==
    "/chroot/sddata/" \o dt \o "/" \o Join(Digits(y)) \o "/" \o Join(m) \o "/"

\* Items writing every file to the destination directory itself
Items_dest_dir(src, dst, files) ==
    [ i \in 1..Len(files) |-> [ source_path |-> src \o "/" \o files[i],
                                destination_path |-> dst ] ]

\* lines 317-319: one item per file
Items(src, dst, files) ==
    [ i \in 1..Len(files) |-> [ source_path |-> src \o "/" \o files[i],
                                destination_path |-> dst \o "/" \o files[i] ] ]

\* lines 306-319: the TransferData object handed to submit_transfer
TransferData(src_uuid, dt, y, m, dst, files) ==
    [ source_endpoint |-> src_uuid,
      destination_endpoint |-> PERSONAL_UUID,
      label |-> "sync_files_from_list",
      sync_level |-> "checksum",
      notify_on_succeeded |-> FALSE,
      notify_on_failed |-> TRUE,
      items |-> Items(SourceDirPrefix(dt, y, m), dst, files) ]

\* sync_files_from_list, called at line 192
SyncFilesFromList ==
    /\ pc = "sync_files_from_list"
    /\ transfer_data' = Some(TransferData(Val(mirror_uuid), data_type, sync_year,
                                          sync_month, sync_local_dir, Val(files_to_sync)))
    /\ calls' = Append(calls, "submit_transfer")
    /\ \/ /\ job_status' = "ACTIVE"
          /\ pc' = "task_wait"
          /\ UNCHANGED << outcome, message >>
       \/ \E e \in RemoteErrors :
            /\ Raise(e)
            /\ UNCHANGED job_status
    /\ UNCHANGED << envVars, reqVars, credVars, authVars, resVars, listing_path,
                    listing_pattern, files_to_sync, task_max_duration_s, waited,
                    completed >>

\* line 193: task_wait is entered
TaskWait ==
    /\ pc = "task_wait"
    /\ calls' = Append(calls, "task_wait")
    /\ waited' = 0
    /\ pc' = "polling"
    /\ UNCHANGED << envVars, outcome, message, reqVars, credVars, authVars, resVars,
                    listing_path, listing_pattern, files_to_sync, task_max_duration_s,
                    transfer_data, job_status, completed >>

\* the remote service finishes the job, whether or not the client still waits
JobFinishes ==
    /\ job_status = "ACTIVE"
    /\ job_status' = "SUCCEEDED"
    /\ UNCHANGED << envVars, ctlVars, reqVars, credVars, authVars, resVars,
                    listing_path, listing_pattern, files_to_sync, task_max_duration_s,
                    transfer_data, waited, completed >>

\* PollStep giving up one status check late
PollStep_late(status, w, timeout) ==
    IF status # "ACTIVE" THEN [ do |-> "return", completed |-> TRUE ]
    ELSE IF w > timeout THEN [ do |-> "return", completed |-> FALSE ]
    ELSE [ do |-> "sleep", completed |-> FALSE ]

\* task_wait is the client library's: it checks the job's status every polling
\* interval and returns true at the first check that finds the job no longer
\* active, false once another interval would pass the timeout.  What one
\* status check does: "return" with the result, or "sleep" for an interval
PollStep(status, w, timeout) ==
    IF status # "ACTIVE" THEN [ do |-> "return", completed |-> TRUE ]
    ELSE IF w + PollingInterval > timeout THEN [ do |-> "return", completed |-> FALSE ]
    ELSE [ do |-> "sleep", completed |-> FALSE ]

\* lines 193-195: one status check of task_wait(timeout=task_max_duration_s,
\* polling_interval=30)
PollTask ==
    /\ pc = "polling"
    /\ \/ LET step == PollStep(job_status, waited, Val(task_max_duration_s))
          IN  IF step.do = "return"
              THEN /\ completed' = Some(step.completed)
                   /\ pc' = "report"
                   /\ UNCHANGED << outcome, message, waited >>
              ELSE /\ waited' = waited + PollingInterval
                   /\ UNCHANGED << pc, outcome, message, completed >>
       \/ \E e \in RemoteErrors :
            /\ Raise(e)
            /\ UNCHANGED << waited, completed >>
    /\ UNCHANGED << envVars, calls, reqVars, credVars, authVars, resVars, listing_path,
                    listing_pattern, files_to_sync, task_max_duration_s, transfer_data,
                    job_status >>

StillRunningMsg == "Transfer didn't complete yet but may still be running"
FinishedMsg == "Transfer finished"

\* Report with the two branches of line 196 exchanged
Report_swapped(done) ==
    IF done THEN [ outcome |-> "StillRunning", message |-> StillRunningMsg ]
    ELSE [ outcome |-> "Completed", message |-> FinishedMsg ]

\* lines 196-200: the outcome and the message for a result of task_wait
Report(done) ==
    IF ~ done THEN [ outcome |-> "StillRunning", message |-> StillRunningMsg ]
    ELSE [ outcome |-> "Completed", message |-> FinishedMsg ]

\* the remote calls the client makes once task_wait has returned
CallsAfterWait(done) == << >>

ReportResult ==
    /\ pc = "report"
    /\ Finish(Report(Val(completed)).outcome, Report(Val(completed)).message)
    /\ calls' = calls \o CallsAfterWait(Val(completed))
    /\ UNCHANGED << envVars, reqVars, credVars, authVars, resVars, syncVars >>

\* ---------------------------------------------------------------------------
\* A second invocation of the script, running at the same time as the first.
\* It is followed from __main__ to the authorizer it obtains; its request is
\* valid.  Between its open() and the end of its write the file is empty.
\* ---------------------------------------------------------------------------
PeerFrame == UNCHANGED << runs, saved_rt, login_run, ctlVars, reqVars, credVars, authVars,
                          resVars, syncVars >>

\* lines 327-331
PeerMain ==
    /\ peer.pc = "main"
    /\ peer' = [ peer EXCEPT !.TRANSFER_RT = MainTransferRt(transfer_rt_file),
                              !.pc = "get_transfer_client" ]
    /\ UNCHANGED transfer_rt_file
    /\ PeerFrame

\* lines 289-294
PeerGetTransferClient ==
    /\ peer.pc = "get_transfer_client"
    /\ LET method == get_transfer_client(peer.TRANSFER_RT, None)
       IN  peer' = [ peer EXCEPT !.strategy = method, !.pc = method ]
    /\ UNCHANGED transfer_rt_file
    /\ PeerFrame

\* lines 221-232
PeerRefreshTokenAuthorizer ==
    /\ peer.pc = "get_refresh_token_authorizer"
    /\ peer' = [ peer EXCEPT !.secret = Some(Join(Val(peer.TRANSFER_RT))),
                              !.pc = "authorized" ]
    /\ UNCHANGED transfer_rt_file
    /\ PeerFrame

\* lines 253-267: the prompt and the exchange of the code
PeerLogin ==
    /\ peer.pc = "get_auth_with_login"
    /\ \/ \E at \in AccessTokens, rt \in RefreshTokens :
            peer' = [ peer EXCEPT !.refresh_token = Some(rt), !.secret = Some(at),
                                  !.pc = "open_file" ]
       \/ peer' = [ peer EXCEPT !.pc = "crashed" ]
    /\ UNCHANGED transfer_rt_file
    /\ PeerFrame

\* line 273: open(name, 'w') truncates the file, or raises
PeerOpenFile ==
    /\ peer.pc = "open_file"
    /\ \/ /\ transfer_rt_file' = Some(<< >>)
          /\ peer' = [ peer EXCEPT !.pc = "write_file" ]
       \/ /\ peer' = [ peer EXCEPT !.pc = "crashed" ]
          /\ UNCHANGED transfer_rt_file
    /\ PeerFrame

\* line 274 and the end of the with block: the secret reaches the file, or
\* the write raises
PeerWriteFile ==
    /\ peer.pc = "write_file"
    /\ \/ /\ transfer_rt_file' = WriteFile(Val(peer.refresh_token))
          /\ peer' = [ peer EXCEPT !.pc = "authorized" ]
       \/ /\ peer' = [ peer EXCEPT !.pc = "crashed" ]
          /\ UNCHANGED transfer_rt_file
    /\ PeerFrame

\* ---------------------------------------------------------------------------
\* Specifications
\* ---------------------------------------------------------------------------
\* Spec: runs of the script, one after another, sharing the token file
Init ==
    /\ transfer_rt_file \in InitialFiles
    /\ runs = 0
    /\ saved_rt = None
    /\ login_run = 0
    /\ peer = NoPeer
    /\ FreshCtl("idle")
    /\ NoRequest
    /\ CLIENT_SECRET = None
    /\ TRANSFER_RT = None
    /\ FreshAuth
    /\ FreshRes
    /\ FreshSync

Next ==
    \/ Main(RunDates, RunRequests)
    \/ SanityCheck
    \/ GetTransferClient
    \/ GetRefreshTokenAuthorizer
    \/ LoginPrompt
    \/ ExchangeCode
    \/ WriteTransferRtFile
    \/ GetSuperdarnMirrorUuid(RunSearchResults)
    \/ ListFiles
    \/ SyncFilesFromList
    \/ TaskWait
    \/ JobFinishes
    \/ PollTask
    \/ ReportResult

Spec == Init /\ [][Next]_vars

\* a Synchronizer under construction with the date d and the arguments r
Constructing(d, r, p) ==
    /\ runs = 1
    /\ saved_rt = None
    /\ login_run = 0
    /\ peer = NoPeer
    /\ FreshCtl(p)
    /\ cur_year = d.year
    /\ cur_month = d.month
    /\ arg_month = r.sync_month
    /\ sync_year = r.sync_year
    /\ sync_month = Format02d(r.sync_month)
    /\ sync_pattern = r.sync_pattern
    /\ data_type = r.data_type
    /\ sync_local_dir = r.sync_local_dir
    /\ FreshRes
    /\ FreshSync

ScenarioDate == [ year |-> 2017, month |-> 6 ]
ScenarioRequest == [ sync_year |-> 2007, sync_month |-> 1, sync_pattern |-> "20070101*sas",
                     data_type |-> "raw", sync_local_dir |-> "/data" ]

\* SpecSanity: sanity_check on every date and every command line
InitSanity ==
    /\ transfer_rt_file = None
    /\ CLIENT_SECRET = None
    /\ TRANSFER_RT = None
    /\ FreshAuth
    /\ \E d \in AllDates, r \in AllRequests : Constructing(d, r, "sanity_check")

NextSanity == SanityCheck

SpecSanity == InitSanity /\ [][NextSanity]_vars

\* SpecAuth: get_transfer_client on every combination of constructor arguments
InitAuth ==
    /\ transfer_rt_file \in InitialFiles
    /\ CLIENT_SECRET \in { None } \cup { Some(c) : c \in ClientSecrets }
    /\ TRANSFER_RT \in { None, Some(<< >>) } \cup { Some(t) : t \in RefreshTokens }
    /\ FreshAuth
    /\ Constructing(ScenarioDate, ScenarioRequest, "get_transfer_client")

NextAuth ==
    \/ GetTransferClient
    \/ GetRefreshTokenAuthorizer
    \/ GetClientSecretAuthorizer
    \/ LoginPrompt
    \/ ExchangeCode
    \/ WriteTransferRtFile

SpecAuth == InitAuth /\ [][NextAuth]_vars

\* SpecResolve: get_superdarn_mirror_uuid on every search result
InitResolve ==
    /\ transfer_rt_file = Some(<< "A" >>)
    /\ CLIENT_SECRET = None
    /\ TRANSFER_RT = Some(<< "A" >>)
    /\ strategies = << "get_refresh_token_authorizer" >>
    /\ authorizer = Some([ kind |-> "RefreshTokenAuthorizer", secret |-> "A" ])
    /\ prompts = 0
    /\ token_response = None
    /\ write_failed = FALSE
    /\ Constructing(ScenarioDate, ScenarioRequest, "get_superdarn_mirror_uuid")

NextResolve == GetSuperdarnMirrorUuid(AllSearchResults)

SpecResolve == InitResolve /\ [][NextResolve]_vars

\* SpecObject: one Synchronizer, constructed with any combination of secrets
\* and with a request that may be invalid, then synchronized
InitObject ==
    /\ transfer_rt_file \in InitialFiles
    /\ CLIENT_SECRET \in { None } \cup { Some(c) : c \in ClientSecrets }
    /\ TRANSFER_RT \in { None, Some(<< >>) } \cup { Some(t) : t \in RefreshTokens }
    /\ FreshAuth
    /\ \E r \in RunRequests : Constructing(ScenarioDate, r, "sanity_check")

NextObject ==
    \/ SanityCheck
    \/ GetTransferClient
    \/ GetRefreshTokenAuthorizer
    \/ GetClientSecretAuthorizer
    \/ LoginPrompt
    \/ ExchangeCode
    \/ WriteTransferRtFile
    \/ GetSuperdarnMirrorUuid(RunSearchResults)
    \/ ListFiles
    \/ SyncFilesFromList
    \/ TaskWait
    \/ JobFinishes
    \/ PollTask
    \/ ReportResult

SpecObject == InitObject /\ [][NextObject]_vars

\* the requests that pass sanity_check on ScenarioDate
ValidRequests == [ sync_year : { 2007, 2016 }, sync_month : 1..12, sync_pattern : Patterns,
                   data_type : possible_data_types, sync_local_dir : { "/data" } ]

\* SpecSync: the listing and the batch of synchronize on every valid request
InitSync ==
    /\ transfer_rt_file = Some(<< "A" >>)
    /\ CLIENT_SECRET = None
    /\ TRANSFER_RT = Some(<< "A" >>)
    /\ strategies = << "get_refresh_token_authorizer" >>
    /\ authorizer = Some([ kind |-> "RefreshTokenAuthorizer", secret |-> "A" ])
    /\ prompts = 0
    /\ token_response = None
    /\ write_failed = FALSE
    /\ runs = 1
    /\ saved_rt = None
    /\ login_run = 0
    /\ peer = NoPeer
    /\ pc = "synchronize"
    /\ outcome = "none"
    /\ message = "none"
    /\ calls = << "endpoint_search" >>
    /\ \E r \in ValidRequests :
          /\ cur_year = ScenarioDate.year
          /\ cur_month = ScenarioDate.month
          /\ arg_month = r.sync_month
          /\ sync_year = r.sync_year
          /\ sync_month = Format02d(r.sync_month)
          /\ sync_pattern = r.sync_pattern
          /\ data_type = r.data_type
          /\ sync_local_dir = r.sync_local_dir
    /\ search_result = Some(<< Mirror("ep1") >>)
    /\ mirror_uuid = Some("ep1")
    /\ FreshSync

NextSync ==
    \/ ListFiles
    \/ SyncFilesFromList

SpecSync == InitSync /\ [][NextSync]_vars

\* SpecLive: SpecObject with the progress the interpreter and the service's
\* client library give: a step of the script that can be taken is taken, and
\* a remote call returns or raises.  Nothing makes the operator type the login
\* code (LoginPrompt) and nothing makes the remote job finish (JobFinishes).
FairObject ==
    /\ WF_vars(SanityCheck)
    /\ WF_vars(GetTransferClient)
    /\ WF_vars(GetRefreshTokenAuthorizer)
    /\ WF_vars(GetClientSecretAuthorizer)
    /\ WF_vars(ExchangeCode)
    /\ WF_vars(WriteTransferRtFile)
    /\ WF_vars(GetSuperdarnMirrorUuid(RunSearchResults))
    /\ WF_vars(ListFiles)
    /\ WF_vars(SyncFilesFromList)
    /\ WF_vars(TaskWait)
    /\ WF_vars(PollTask)
    /\ WF_vars(ReportResult)

SpecLive == InitObject /\ [][NextObject]_vars /\ FairObject

\* SpecConc: two invocations started together on the same token file, every
\* interleaving of their steps up to the authorizer each obtains
InitConc ==
    /\ transfer_rt_file \in InitialFiles
    /\ runs = MaxRuns - 1
    /\ saved_rt = None
    /\ login_run = 0
    /\ peer = [ NoPeer EXCEPT !.pc = "main", !.launch_file = transfer_rt_file ]
    /\ FreshCtl("idle")
    /\ NoRequest
    /\ CLIENT_SECRET = None
    /\ TRANSFER_RT = None
    /\ FreshAuth
    /\ FreshRes
    /\ FreshSync

NextConc ==
    \/ Main({ ScenarioDate }, { ScenarioRequest })
    \/ SanityCheck
    \/ GetTransferClient
    \/ GetRefreshTokenAuthorizer
    \/ LoginPrompt
    \/ ExchangeCode
    \/ WriteTransferRtFile
    \/ PeerMain
    \/ PeerGetTransferClient
    \/ PeerRefreshTokenAuthorizer
    \/ PeerLogin
    \/ PeerOpenFile
    \/ PeerWriteFile

SpecConc == InitConc /\ [][NextConc]_vars

\* ---------------------------------------------------------------------------
\* Properties
\* ---------------------------------------------------------------------------
Range(seq) == { seq[i] : i \in 1..Len(seq) }
Last(seq) == seq[Len(seq)]

\* C1: once a batch is submitted, a run whose task_wait reported completion
\* (which it does only within the soft deadline) ends Completed, a run whose
\* soft deadline elapsed first ends StillRunning, and no run ever asks the
\* service to cancel a job.
C1_PollOutcome ==
    /\ (pc = "done" /\ completed = Some(TRUE)) => outcome = "Completed"
    /\ (pc = "done" /\ completed = Some(FALSE)) => outcome = "StillRunning"
    /\ outcome = "Completed" =>
          /\ completed = Some(TRUE)
          /\ job_status = "SUCCEEDED"
          /\ waited <= Val(task_max_duration_s)
    /\ outcome = "StillRunning" =>
          /\ completed = Some(FALSE)
          /\ waited + PollingInterval > Val(task_max_duration_s)
    /\ "cancel_task" \notin Range(calls)
    /\ job_status \in { "none", "ACTIVE", "SUCCEEDED" }

\* a run that waited, gave up at the deadline and left the job running
C1_Witness ==
    /\ outcome = "StillRunning"
    /\ waited > 0
    /\ job_status = "ACTIVE"
    /\ Last(calls) = "task_wait"

\* C2: get_transfer_client invokes exactly one authorizer method: the refresh
\* token one whenever a refresh secret is present, the client secret one only
\* when there is no refresh secret but a client secret, the login only when
\* there is neither.
C2_StrategySelection ==
    /\ Len(strategies) <= 1
    /\ pc # "get_transfer_client" => Len(strategies) = 1
    /\ Len(strategies) = 1 =>
          /\ ~ IsNone(TRANSFER_RT) => strategies[1] = "get_refresh_token_authorizer"
          /\ (IsNone(TRANSFER_RT) /\ ~ IsNone(CLIENT_SECRET)) =>
                strategies[1] = "get_client_secret_authorizer"
          /\ (IsNone(TRANSFER_RT) /\ IsNone(CLIENT_SECRET)) =>
                strategies[1] = "get_auth_with_login"
    /\ prompts > 0 => (IsNone(TRANSFER_RT) /\ IsNone(CLIENT_SECRET))
    /\ "oauth2_exchange_code_for_tokens" \in Range(calls) =>
          (IsNone(TRANSFER_RT) /\ IsNone(CLIENT_SECRET))
    /\ "oauth2_client_credentials_tokens" \in Range(calls) =>
          (IsNone(TRANSFER_RT) /\ ~ IsNone(CLIENT_SECRET))
    /\ (~ IsNone(authorizer) /\ Val(authorizer).kind = "RefreshTokenAuthorizer") =>
          ~ IsNone(TRANSFER_RT)

\* both secrets present: the refresh token authorizer was built
C2_Witness ==
    /\ ~ IsNone(TRANSFER_RT)
    /\ ~ IsNone(CLIENT_SECRET)
    /\ strategies = << "get_refresh_token_authorizer" >>
    /\ ~ IsNone(authorizer)

\* C3: in every run after one whose interactive login wrote the token file,
\* the file is there, the secret read from it is the secret that was written,
\* the only authorizer method invoked is the refresh token one and the
\* operator is not asked for a code.
C3_LoginOnce ==
    (login_run > 0 /\ runs > login_run) =>
        /\ isfile(transfer_rt_file)
        /\ Val(transfer_rt_file) = Val(saved_rt)
        /\ TRANSFER_RT = saved_rt
        /\ prompts = 0
        /\ "oauth2_exchange_code_for_tokens" \notin Range(calls)
        /\ Range(strategies) \subseteq { "get_refresh_token_authorizer" }
        /\ pc \notin { "sanity_check", "get_transfer_client", "done" } =>
              strategies = << "get_refresh_token_authorizer" >>
        /\ ~ IsNone(authorizer) =>
              Val(authorizer) = [ kind |-> "RefreshTokenAuthorizer",
                                  secret |-> Join(Val(saved_rt)) ]

\* the second run after a login, authorized by the secret the login wrote
C3_Witness ==
    /\ login_run = 1
    /\ runs = 3
    /\ saved_rt = Some(<< "B", "A" >>)
    /\ ~ IsNone(authorizer)
    /\ ~ IsNone(mirror_uuid)

\* C4: a failure to write the token file does not end the run: the run has
\* its access token authorizer and goes on.
C4_WriteFailureNotFatal ==
    write_failed => (outcome # "Crashed" /\ ~ IsNone(authorizer))

\* C5: get_superdarn_mirror_uuid returns the id of the first endpoint, in the
\* order of the search result, whose contact holds the maintainer address and
\* whose description holds the marker; when no endpoint has both, the script
\* exits with "No endpoint found" and there is no mirror id.
C5_FirstFullMatch ==
    ~ IsNone(search_result) =>
        LET eps == Val(search_result)
            full == { i \in 1..Len(eps) :
                        /\ Contains(<< "kevin.krieger@usask.ca" >>, eps[i].contact_email)
                        /\ Contains(<< "Official" >>, eps[i].description) }
        IN  IF full = { }
            THEN /\ IsNone(mirror_uuid)
                 /\ pc = "done"
                 /\ outcome = "Aborted"
                 /\ message = EndpointNotFoundMsg
            ELSE /\ \E i \in full :
                       /\ \A j \in full : i <= j
                       /\ mirror_uuid = Some(eps[i].id)
                 /\ pc = "synchronize"
                 /\ outcome = "none"

\* an endpoint matching only the address, then the mirror: the mirror's id
C5_Witness ==
    /\ ~ IsNone(search_result)
    /\ Len(Val(search_result)) = 2
    /\ Val(search_result)[1] = Partial("ep1")
    /\ Val(search_result)[2] = Mirror("ep2")
    /\ mirror_uuid = Some("ep2")

SanityMessages == { FutureMonthMsg, FutureYearMsg, InvalidMonthMsg, DataTypeMsg }

\* C6: a request for a year after the current year, or for a month of the
\* current year after the current month, makes sanity_check exit with one of
\* its messages, whatever the data type and the pattern.
C6_FutureRejected ==
    (pc # "sanity_check" /\ runs > 0 /\
     (sync_year > cur_year \/ (sync_year = cur_year /\ arg_month > cur_month))) =>
        /\ pc = "done"
        /\ outcome = "Aborted"
        /\ message \in SanityMessages
        /\ strategies = << >>

\* a month of the current year, in 1..12, after the current month
C6_Witness ==
    /\ pc = "done"
    /\ sync_year = cur_year
    /\ arg_month > cur_month
    /\ arg_month <= 12
    /\ data_type = "raw"
    /\ outcome = "Aborted"

\* C7 as stated: a request whose month is outside 1..12 fails validation with
\* the invalid month message, whatever its year and the current date.
C7_AlwaysInvalidMonth ==
    (pc # "sanity_check" /\ runs > 0 /\ (arg_month < 1 \/ arg_month > 12)) =>
        /\ outcome = "Aborted"
        /\ message = InvalidMonthMsg

\* C7 as amended: a request whose month is outside 1..12 fails validation,
\* whatever its year, data type, pattern and the current date; the message is
\* the future month one when the year is the current year and the month is
\* above the current month, the future year one when the year is after the
\* current year, and the invalid month one otherwise.
C7_MonthOutOfRange ==
    (pc # "sanity_check" /\ runs > 0 /\ (arg_month < 1 \/ arg_month > 12)) =>
        /\ pc = "done"
        /\ outcome = "Aborted"
        /\ message = IF sync_year = cur_year /\ arg_month > cur_month THEN FutureMonthMsg
                     ELSE IF sync_year > cur_year THEN FutureYearMsg
                     ELSE InvalidMonthMsg

\* month 0 of the current year: the invalid month message
C7_Witness ==
    /\ pc = "done"
    /\ arg_month = 0
    /\ sync_year = cur_year
    /\ data_type = "raw"
    /\ message = InvalidMonthMsg

\* C8: a run whose listing is empty, and in which no remote call fails, ends
\* Completed.
C8_EmptyListingCompleted ==
    (pc = "done" /\ files_to_sync = Some(<< >>) /\ outcome # "Failed") =>
        outcome = "Completed"

\* C9: a run that got as far as the listing never crashes: a remote error in
\* the listing, the submission or the polling ends it Failed with the error
\* as the reason.
C9_RemoteErrorsCaught ==
    (pc = "done" /\ "operation_ls" \in Range(calls)) =>
        /\ outcome \in { "Failed", "StillRunning", "Completed" }
        /\ outcome = "Failed" <=> IsNone(completed)
        /\ outcome = "Failed" => message \in RemoteErrors

\* a network error while polling
C9_Witness ==
    /\ pc = "done"
    /\ outcome = "Failed"
    /\ message = "NetworkError"
    /\ Last(calls) = "task_wait"
    /\ waited > 0

\* C10: the batch handed to submit_transfer has one item per listed name, in
\* listing order, from <source prefix>/<name> to <local dir>/<name>, with
\* checksum sync level, no notification on success and one on failure.
C10_BatchItems ==
    /\ "submit_transfer" \in Range(calls) => ~ IsNone(transfer_data)
    /\ ~ IsNone(transfer_data) =>
          LET td == Val(transfer_data)
              files == Val(files_to_sync)
              prefix == "/chroot/sddata/" \o data_type \o "/2007/01/"
          IN  /\ Len(td.items) = Len(files)
              /\ \A i \in 1..Len(files) :
                    /\ td.items[i].source_path = prefix \o "/" \o files[i]
                    /\ td.items[i].destination_path = sync_local_dir \o "/" \o files[i]
              /\ td.sync_level = "checksum"
              /\ td.notify_on_succeeded = FALSE
              /\ td.notify_on_failed = TRUE

\* two files, listed as f2 then f1, submitted in that order
C10_Witness ==
    /\ ~ IsNone(transfer_data)
    /\ Last(calls) = "submit_transfer"
    /\ files_to_sync = Some(<< "f2.rawacf.bz2", "f1.rawacf.bz2" >>)
    /\ Len(Val(transfer_data).items) = 2
    /\ Val(transfer_data).items[1].source_path = "/chroot/sddata/raw/2007/01//f2.rawacf.bz2"
    /\ Val(transfer_data).items[2].destination_path = "/data/f1.rawacf.bz2"

\* a request that breaks one of the rules of validation
InvalidRequest ==
    \/ sync_year > cur_year
    \/ (sync_year = cur_year /\ arg_month > cur_month)
    \/ arg_month < 1
    \/ arg_month > 12
    \/ data_type \notin { "raw", "dat", "fit", "map", "grid", "summary" }

\* C11: a run whose request is invalid makes no remote call, selects no
\* credential strategy, never asks the operator for a code and ends at
\* sanity_check with one of its messages.
C11_PreFlight ==
    (runs > 0 /\ InvalidRequest) =>
        /\ pc \in { "sanity_check", "done" }
        /\ calls = << >>
        /\ prompts = 0
        /\ strategies = << >>
        /\ IsNone(authorizer)
        /\ IsNone(search_result)
        /\ job_status = "none"
        /\ pc = "done" => (outcome = "Aborted" /\ message \in SanityMessages)

\* month 13 with neither secret: aborted before the login that would follow
C11_Witness ==
    /\ pc = "done"
    /\ arg_month = 13
    /\ IsNone(TRANSFER_RT)
    /\ IsNone(CLIENT_SECRET)
    /\ outcome = "Aborted"
    /\ calls = << >>

\* the filter of the table for a category and a pattern
TableFilter(category, p) ==
    CASE category = "raw" -> "*" \o p \o "*rawacf.bz2"
      [] category = "dat" -> "*" \o p \o "*dat.bz2"
      [] category = "fit" -> "*" \o p \o "*fitacf.gz"
      [] category = "map" -> "*" \o p \o "*map"
      [] category = "grid" -> "*" \o p \o "*grid"
      [] category = "summary" -> "*" \o p \o "*"

\* C12: the filter handed to the listing is, behind the service's "name:~"
\* prefix, the row of the table for the request's category: *p* followed by
\* the category's suffix, and for summary *p* with no suffix.
C12_FilterTable ==
    ~ IsNone(listing_pattern) =>
        Val(listing_pattern) = "name:~" \o TableFilter(data_type, sync_pattern)

\* raw with the pattern 20070101*sas
C12_Witness ==
    /\ data_type = "raw"
    /\ sync_pattern = "20070101*sas"
    /\ listing_pattern = Some("name:~*20070101*sas*rawacf.bz2")
    /\ "operation_ls" \in Range(calls)

\* a month of 1..12 written with two digits
TwoDigits(m) ==
    CASE m = 1 -> "01" [] m = 2 -> "02" [] m = 3 -> "03" [] m = 4 -> "04"
      [] m = 5 -> "05" [] m = 6 -> "06" [] m = 7 -> "07" [] m = 8 -> "08"
      [] m = 9 -> "09" [] m = 10 -> "10" [] m = 11 -> "11" [] m = 12 -> "12"

FourDigits(y) == CASE y = 2007 -> "2007" [] y = 2016 -> "2016"

\* C13: for a valid request the listing path is ~/chroot/sddata/<category>/
\* <year>/<MM>/ and every source path of the batch starts with /chroot/sddata/
\* <category>/<year>/<MM>/, with the request's category and year and its
\* month written with exactly two digits.
C13_ZeroPaddedPaths ==
    LET tail == data_type \o "/" \o FourDigits(sync_year) \o "/" \o TwoDigits(arg_month) \o "/"
    IN  /\ ~ IsNone(listing_path) => Val(listing_path) = "~/chroot/sddata/" \o tail
        /\ ~ IsNone(transfer_data) =>
              \A i \in 1..Len(Val(transfer_data).items) :
                  Val(transfer_data).items[i].source_path =
                      "/chroot/sddata/" \o tail \o "/" \o Val(files_to_sync)[i]

\* January 2007: the path segment 01
C13_Witness ==
    /\ arg_month = 1
    /\ listing_path = Some("~/chroot/sddata/raw/2007/01/")
    /\ ~ IsNone(transfer_data)
    /\ Len(Val(transfer_data).items) > 0
    /\ Val(transfer_data).items[1].source_path = "/chroot/sddata/raw/2007/01//f1.rawacf.bz2"

\* C14: the timeout handed to task_wait is 30 times the number of listed
\* files, whatever else the run was given, and the wait advances in steps of
\* 30 up to that timeout.
C14_SoftDeadline ==
    ~ IsNone(task_max_duration_s) =>
        /\ Val(task_max_duration_s) = 30 * Len(Val(files_to_sync))
        /\ waited \in { 30 * k : k \in 0..Len(Val(files_to_sync)) }

\* five files: a timeout of 150, waited out in full
C14_Witness ==
    /\ ~ IsNone(files_to_sync)
    /\ Len(Val(files_to_sync)) = 5
    /\ task_max_duration_s = Some(150)
    /\ waited = 150
    /\ outcome = "StillRunning"

\* C15: sanity_check lets a request through exactly when its year and month
\* are not after the current ones, its month is in 1..12 and its data type is
\* one of the six; every other request ends the run there.
C15_AcceptsExactlyValid ==
    (runs > 0 /\ pc # "sanity_check") =>
        /\ pc = "get_transfer_client" <=> ~ InvalidRequest
        /\ pc = "done" <=> InvalidRequest
        /\ pc = "get_transfer_client" => (outcome = "none" /\ message = "none")

\* January 2007, raw, asked for in June 2017: accepted
C15_Witness ==
    /\ pc = "get_transfer_client"
    /\ cur_year = 2017
    /\ cur_month = 6
    /\ sync_year = 2007
    /\ arg_month = 1
    /\ data_type = "raw"
    /\ sync_pattern = "20070101*sas"

\* C20: sanity_check reports the first rule that fails in the order future
\* month of the current year, future year, invalid month, unsupported data
\* type; a request with a data type outside the six fails even when its date
\* is valid.
C20_RuleOrder ==
    (runs > 0 /\ pc # "sanity_check") =>
        LET rule1 == sync_year = cur_year /\ arg_month > cur_month
            rule2 == sync_year > cur_year
            rule3 == arg_month < 1 \/ arg_month > 12
            rule4 == data_type \notin { "raw", "dat", "fit", "map", "grid", "summary" }
        IN  /\ rule1 => message = FutureMonthMsg
            /\ (~ rule1 /\ rule2) => message = FutureYearMsg
            /\ (~ rule1 /\ ~ rule2 /\ rule3) => message = InvalidMonthMsg
            /\ (~ rule1 /\ ~ rule2 /\ ~ rule3 /\ rule4) => message = DataTypeMsg
            /\ rule4 => (pc = "done" /\ outcome = "Aborted")

\* a future month, out of range, with an unsupported data type: the first rule
C20_Witness ==
    /\ pc = "done"
    /\ sync_year = cur_year
    /\ arg_month = 13
    /\ data_type = "rawacf"
    /\ message = FutureMonthMsg

StepOrder == << "endpoint_search", "operation_ls", "submit_transfer", "task_wait" >>
CredentialCalls == { << >>, << "oauth2_client_credentials_tokens" >>,
                     << "oauth2_exchange_code_for_tokens" >> }

\* C16: the remote calls of a run are at most one credential exchange, then
\* endpoint search, listing, submission and wait, each at most once and in
\* that order; a call is made only when the step before it has given its
\* result, and a run that failed made its last call at the step that failed.
C16_SequentialNoRetry ==
    /\ \E a \in CredentialCalls, k \in 0..4 : calls = a \o SubSeq(StepOrder, 1, k)
    /\ Len(strategies) <= 1
    /\ prompts <= 1
    /\ "endpoint_search" \in Range(calls) => ~ IsNone(authorizer)
    /\ "operation_ls" \in Range(calls) => ~ IsNone(mirror_uuid)
    /\ "submit_transfer" \in Range(calls) => ~ IsNone(files_to_sync)
    /\ "task_wait" \in Range(calls) => job_status # "none"
    /\ outcome \in { "Failed", "Crashed", "Aborted" } => pc = "done"
    /\ outcome = "Failed" =>
          Last(calls) = IF IsNone(files_to_sync) THEN "operation_ls"
                        ELSE IF job_status = "none" THEN "submit_transfer"
                        ELSE "task_wait"
    /\ (outcome = "Aborted" /\ message = EndpointNotFoundMsg) =>
          Last(calls) = "endpoint_search"
    /\ (outcome = "Crashed" /\ ~ IsNone(authorizer)) => Last(calls) = "endpoint_search"
    /\ (outcome = "Crashed" /\ IsNone(authorizer)) =>
          calls \in { << "oauth2_client_credentials_tokens" >>,
                      << "oauth2_exchange_code_for_tokens" >> }

\* a login, a search, a listing, and a submission that failed: nothing after it
C16_Witness ==
    /\ outcome = "Failed"
    /\ calls = << "oauth2_exchange_code_for_tokens", "endpoint_search", "operation_ls",
                  "submit_transfer" >>
    /\ job_status = "none"
    /\ Len(Val(files_to_sync)) = 2

\* C19: the token file changes only in the write that follows a successful
\* code exchange of the interactive login, and a write that succeeds leaves
\* in it the new refresh secret and nothing else; no other step of any run
\* changes it.
C19_FileWrittenOnlyByLogin ==
    [][ /\ transfer_rt_file' # transfer_rt_file =>
              /\ pc = "write_transfer_rt_file"
              /\ strategies = << "get_auth_with_login" >>
              /\ Last(calls) = "oauth2_exchange_code_for_tokens"
              /\ ~ IsNone(token_response)
              /\ write_failed' \/ transfer_rt_file' = Some(Val(token_response).refresh_token)
        /\ (pc = "write_transfer_rt_file" /\ pc' # "done") =>
              transfer_rt_file' = Some(Val(token_response).refresh_token)
      ]_vars

\* a login that found a file and replaced its content by the new secret
C19_Witness ==
    /\ pc = "get_superdarn_mirror_uuid"
    /\ strategies = << "get_auth_with_login" >>
    /\ transfer_rt_file = Some(<< "B", "A" >>)
    /\ saved_rt = Some(<< "B", "A" >>)
    /\ ~ write_failed

\* C18 as stated: every run, under any credential strategy, reaches a final
\* outcome.
C18_EveryRunEnds == <>(pc = "done")

\* C18 as amended: the wait of the poll loop never passes the soft deadline,
\* and every run reaches a final outcome unless it stays for ever at the
\* prompt of the interactive login, waiting for the operator's code.
C18_EndsUnlessAtPrompt ==
    /\ [](pc = "polling" => waited <= Val(task_max_duration_s))
    /\ \/ <>(pc = "done")
       \/ <>[](pc = "get_auth_with_login")

\* a run under the client secret that waited out its soft deadline and ended
C18_Witness ==
    /\ pc = "done"
    /\ strategies = << "get_client_secret_authorizer" >>
    /\ outcome = "StillRunning"
    /\ waited > 0
    /\ waited = Val(task_max_duration_s)

\* what a run started on the token file f reads and selects when it runs alone
AloneRt(f) == IF f = None THEN None ELSE Some(ReadLine(Val(f)))
AloneStrategy(f) ==
    IF f = None THEN "get_auth_with_login" ELSE "get_refresh_token_authorizer"

\* C17 as stated: in every interleaving of two runs, each run reads the
\* secret and selects the strategy it would have read and selected alone.
C17_RunsIsolated ==
    /\ pc # "idle" => TRANSFER_RT = AloneRt(peer.launch_file)
    /\ Range(strategies) \subseteq { AloneStrategy(peer.launch_file) }
    /\ peer.pc # "main" => peer.TRANSFER_RT = AloneRt(peer.launch_file)
    /\ peer.strategy \in { "none", AloneStrategy(peer.launch_file) }

\* C17 as amended: the token file is state shared by concurrent runs.  When
\* it exists as the runs start, no run changes it, no run logs in, and each
\* reads the secret and selects the strategy it would alone.  When it does
\* not, a run that looks for the file after the other run's login has opened
\* it reads what is in it then, the other's secret or nothing, and takes the
\* refresh token strategy with that.
C17_SharedTokenFile ==
    /\ isfile(peer.launch_file) =>
          /\ transfer_rt_file = peer.launch_file
          /\ prompts = 0
          /\ pc # "idle" => TRANSFER_RT = AloneRt(peer.launch_file)
          /\ Range(strategies) \subseteq { "get_refresh_token_authorizer" }
          /\ peer.pc # "main" => peer.TRANSFER_RT = AloneRt(peer.launch_file)
          /\ peer.strategy \in { "none", "get_refresh_token_authorizer" }
          /\ peer.pc \notin { "open_file", "write_file", "crashed" }
    /\ (~ isfile(peer.launch_file) /\ ~ IsNone(TRANSFER_RT)) =>
          /\ ~ IsNone(peer.refresh_token)
          /\ Val(TRANSFER_RT) \in { << >>, Val(peer.refresh_token) }
          /\ Range(strategies) \subseteq { "get_refresh_token_authorizer" }
    /\ (~ isfile(peer.launch_file) /\ ~ IsNone(peer.TRANSFER_RT)) =>
          /\ ~ IsNone(token_response)
          /\ Val(peer.TRANSFER_RT) \in { << >>, Val(token_response).refresh_token }
          /\ peer.strategy \in { "none", "get_refresh_token_authorizer" }

\* two runs started on a file holding a secret and a newline: both authorized
\* by what readline gives, the file as it was
C17_Witness ==
    /\ peer.launch_file = Some(<< "A", "\n" >>)
    /\ pc = "get_superdarn_mirror_uuid"
    /\ peer.pc = "authorized"
    /\ Val(authorizer).secret = Val(peer.secret)
    /\ transfer_rt_file = peer.launch_file

====
